---------------------------- MODULE Spec2Model ----------------------------
(***************************************************************************)
(* hashable_refs: HashableRef<T> (an Rc<RefCell<T>> hashed and compared by *)
(* allocation address) and WeakHashableRef<T> (a Weak<RefCell<T>> hashed   *)
(* and compared through upgrade().unwrap()).                               *)
(*                                                                         *)
(* The heap is a set of addresses; each used address holds one Rc box:     *)
(* strong and weak counters, the RefCell borrow flag and the value.  A     *)
(* handle holds a pointer (an address); the handles that exist form a bag, *)
(* since two handles with the same fields are interchangeable.  The field  *)
(* `id' of a box and of a handle is a ghost naming the allocation: new()   *)
(* gives the box a name that no box and no handle bears at that moment,    *)
(* clone and downgrade copy it.  No operation of the library reads it.     *)
(***************************************************************************)
EXTENDS Integers, FiniteSets, Sequences, Bags

\* ---------------------------------------------------------------- bounds
MaxHandles == 4      \* handles that exist at the same time
NumAddrs   == 2      \* heap addresses the allocator hands out
MaxReads   == 2      \* read guards outstanding on one allocation

Addrs   == 1..NumAddrs
Ids     == 1..(NumAddrs + 1)
Values  == {"A", "B"}
Dropped == "-"       \* the value slot of a box whose value was destroyed

VARIABLES
    hnd,      \* the bag of handles: kind, ptr, id, owner (0: a local; p: stored in
              \* the value at p), r and w (Ref and RefMut guards obtained through it)
    heap,     \* address -> Rc box
    ret,      \* what the last call returned: the call, its outcome, its value
    map       \* the entries of the client's HashMap, in probe order: key and value
              \* handles (they are in hnd too, with owner InMap)

vars == <<hnd, heap, ret, map>>

FreeBox == [used |-> FALSE, id |-> 0, strong |-> 0, weak |-> 0, flag |-> 0,
            val |-> Dropped, alive |-> FALSE]

Rc(p, i)   == [kind |-> "own",  ptr |-> p, id |-> i, owner |-> 0, r |-> 0, w |-> 0]
Weak(p, i) == [kind |-> "weak", ptr |-> p, id |-> i, owner |-> 0, r |-> 0, w |-> 0]

Ret(op, res, val, id) == [op |-> op, res |-> res, val |-> val, id |-> id]

\* The process is gone: a panic, or a traversal that ran out of stack or memory.
Panicked == ret.res \in {"panic", "overflow"}

One(h)    == SetToBag({h})
Handles   == BagToSet(hnd)
Owns      == {h \in Handles : h.kind = "own"}
Weaks     == {h \in Handles : h.kind = "weak"}
Local(h)  == h.owner = 0
Room      == BagCardinality(hnd) < MaxHandles

FreeAddrs == {p \in Addrs : ~heap[p].used}
FreeIds   == {i \in Ids : (\A p \in Addrs : heap[p].id # i) /\ (\A h \in Handles : h.id # i)}
\* The name given to a new allocation at p: p itself when nothing bears it.
FreshId(p) == IF p \in FreeIds THEN p ELSE CHOOSE i \in FreeIds : \A j \in FreeIds : i <= j

Init ==
    /\ hnd = EmptyBag
    /\ heap = [p \in Addrs |-> FreeBox]
    /\ ret = Ret("init", "ok", 0, 0)
    /\ map = <<>>

\* ------------------------------------------------------------ HashableRef
\* HashableRef::new: Rc::new(RefCell::new(obj)) at an address the allocator picks.
new(v) ==
    /\ ~Panicked
    /\ Room
    /\ FreeIds # {}
    /\ \E p \in FreeAddrs :
          /\ heap' = [heap EXCEPT ![p] = [used |-> TRUE, id |-> FreshId(p), strong |-> 1,
                                          weak |-> 0, flag |-> 0, val |-> v, alive |-> TRUE]]
          /\ hnd' = hnd (+) One(Rc(p, FreshId(p)))
          /\ ret' = Ret("new", "ok", 0, 0)
    /\ UNCHANGED map

\* A clone that copies the handle as it is, the guards taken through it included.
clone_with_guards(h) ==
    /\ ~Panicked
    /\ h \in Owns /\ Local(h)
    /\ Room
    /\ hnd' = hnd (+) One(h)
    /\ heap' = [heap EXCEPT ![h.ptr].strong = @ + 1]
    /\ ret' = Ret("clone", "ok", 0, 0)
    /\ UNCHANGED map

\* Clone for HashableRef: Rc::clone, strong count + 1, same pointer.
clone(h) ==
    /\ ~Panicked
    /\ h \in Owns /\ Local(h)
    /\ Room
    /\ hnd' = hnd (+) One(Rc(h.ptr, h.id))
    /\ heap' = [heap EXCEPT ![h.ptr].strong = @ + 1]
    /\ ret' = Ret("clone", "ok", 0, 0)
    /\ UNCHANGED map

\* HashableRef::downgrade: Rc::downgrade, weak count + 1, same pointer.
downgrade(h) ==
    /\ ~Panicked
    /\ h \in Owns /\ Local(h)
    /\ Room
    /\ hnd' = hnd (+) One(Weak(h.ptr, h.id))
    /\ heap' = [heap EXCEPT ![h.ptr].weak = @ + 1]
    /\ ret' = Ret("downgrade", "ok", 0, 0)
    /\ UNCHANGED map

\* ------------------------------------------------------- WeakHashableRef
\* upgrade() that skips the strong-count test.
upgrade_unchecked(w) ==
    /\ ~Panicked
    /\ w \in Weaks /\ Local(w)
    /\ Room
    /\ hnd' = hnd (+) One(Rc(w.ptr, heap[w.ptr].id))
    /\ heap' = [heap EXCEPT ![w.ptr].strong = @ + 1]
    /\ ret' = Ret("upgrade", "some", w.ptr, heap[w.ptr].id)
    /\ UNCHANGED map

\* upgrade() that gives None while the value is borrowed.
upgrade_unless_borrowed(w) ==
    /\ ~Panicked
    /\ w \in Weaks /\ Local(w)
    /\ IF heap[w.ptr].strong = 0 \/ heap[w.ptr].flag # 0
       THEN /\ ret' = Ret("upgrade", "none", 0, 0)
            /\ UNCHANGED <<hnd, heap>>
       ELSE /\ Room
            /\ hnd' = hnd (+) One(Rc(w.ptr, heap[w.ptr].id))
            /\ heap' = [heap EXCEPT ![w.ptr].strong = @ + 1]
            /\ ret' = Ret("upgrade", "some", w.ptr, heap[w.ptr].id)
    /\ UNCHANGED map

\* WeakHashableRef::upgrade: Weak::upgrade gives None when the strong count is 0,
\* otherwise strong count + 1 and an Rc with the same pointer.  The identity of
\* the returned handle is that of the box found at the pointer.
upgrade(w) ==
    /\ ~Panicked
    /\ w \in Weaks /\ Local(w)
    /\ IF heap[w.ptr].strong = 0
       THEN /\ ret' = Ret("upgrade", "none", 0, 0)
            /\ UNCHANGED <<hnd, heap>>
       ELSE /\ Room
            /\ hnd' = hnd (+) One(Rc(w.ptr, heap[w.ptr].id))
            /\ heap' = [heap EXCEPT ![w.ptr].strong = @ + 1]
            /\ ret' = Ret("upgrade", "some", w.ptr, heap[w.ptr].id)
    /\ UNCHANGED map

\* A Weak clone that copies the pointer and leaves the weak count alone.
weak_clone_uncounted(w) ==
    /\ ~Panicked
    /\ w \in Weaks /\ Local(w)
    /\ Room
    /\ hnd' = hnd (+) One(Weak(w.ptr, w.id))
    /\ ret' = Ret("weak_clone", "ok", 0, 0)
    /\ UNCHANGED <<heap, map>>

\* Clone for WeakHashableRef: Weak::clone, weak count + 1, same pointer.
weak_clone(w) ==
    /\ ~Panicked
    /\ w \in Weaks /\ Local(w)
    /\ Room
    /\ hnd' = hnd (+) One(Weak(w.ptr, w.id))
    /\ heap' = [heap EXCEPT ![w.ptr].weak = @ + 1]
    /\ ret' = Ret("weak_clone", "ok", 0, 0)
    /\ UNCHANGED map

\* ------------------------------------------------------------------ release
\* Releasing a handle.  Rc: strong - 1; at 0 the value is destroyed in place
\* (which releases every handle stored in it), and the box is freed if no Weak
\* is left.  Weak: weak - 1; the box is freed when both counts are 0.
RECURSIVE Release(_, _), ReleaseAll(_, _)
Release(st, h) ==
    LET p    == h.ptr
        box  == st.heap[p]
        hnd1 == st.hnd (-) One(h)
    IN  IF h.kind = "weak"
        THEN [hnd  |-> hnd1,
              heap |-> [st.heap EXCEPT ![p] =
                          IF box.weak = 1 /\ box.strong = 0 /\ ~box.alive
                          THEN FreeBox ELSE [box EXCEPT !.weak = @ - 1]]]
        ELSE IF box.strong > 1
        THEN [hnd |-> hnd1, heap |-> [st.heap EXCEPT ![p].strong = @ - 1]]
        ELSE LET st1  == [hnd |-> hnd1, heap |-> [st.heap EXCEPT ![p].strong = 0]]
                 st2  == ReleaseAll(st1, p)
                 box2 == st2.heap[p]
             IN  [hnd  |-> st2.hnd,
                  heap |-> [st2.heap EXCEPT ![p] =
                              IF box2.weak = 0 THEN FreeBox
                              ELSE [box2 EXCEPT !.alive = FALSE, !.val = Dropped]]]
\* A destructor that leaves the handles stored in the value where they are.
ReleaseNone(st, p) == st

\* The handles stored in the value at p are released, one after the other.
ReleaseAll(st, p) ==
    LET S == {k \in BagToSet(st.hnd) : k.owner = p}
    IN  IF S = {} THEN st ELSE ReleaseAll(Release(st, CHOOSE k \in S : TRUE), p)

\* The values whose destructor ran between two heaps: what a release reports.
Destroyed(hp, hq) == Cardinality({p \in DOMAIN hp : hp[p].alive /\ ~hq[p].alive})

\* A release that only counts down and never destroys the value.
drop_keeps_value(h) ==
    /\ ~Panicked
    /\ h \in Handles /\ Local(h)
    /\ h.r = 0 /\ h.w = 0
    /\ hnd' = hnd (-) One(h)
    /\ heap' = [heap EXCEPT ![h.ptr] = IF h.kind = "weak" THEN [@ EXCEPT !.weak = @ - 1]
                                                          ELSE [@ EXCEPT !.strong = @ - 1]]
    /\ ret' = Ret("drop", "ok", 0, 0)
    /\ UNCHANGED map

\* A release that does not wait for the guards taken through the handle.
drop_while_borrowed(h) ==
    /\ ~Panicked
    /\ h \in Handles /\ Local(h)
    /\ LET st == Release([hnd |-> hnd, heap |-> heap], h)
       IN  /\ hnd' = st.hnd /\ heap' = st.heap
           /\ ret' = Ret("drop", "ok", Destroyed(heap, st.heap), 0)
    /\ UNCHANGED map

\* A release that frees the box with the value, whatever the weak count.
drop_frees_with_value(h) ==
    /\ ~Panicked
    /\ h \in Handles /\ Local(h)
    /\ h.r = 0 /\ h.w = 0
    /\ LET st == Release([hnd |-> hnd, heap |-> heap], h)
       IN  /\ hnd' = st.hnd
           /\ heap' = IF h.kind = "own" /\ heap[h.ptr].strong = 1
                       THEN [st.heap EXCEPT ![h.ptr] = FreeBox] ELSE st.heap
    /\ ret' = Ret("drop", "ok", 0, 0)
    /\ UNCHANGED map

\* A release that takes the handles of the locals for the only ones: the value
\* is destroyed with the last local HashableRef.
drop_last_local_destroys(h) ==
    /\ ~Panicked
    /\ h \in Handles /\ Local(h)
    /\ h.r = 0 /\ h.w = 0
    /\ LET last == /\ h.kind = "own" /\ CopiesIn(h, hnd) = 1
                   /\ \A k \in Owns : (Local(k) /\ k.ptr = h.ptr) => k = h
           st   == Release([hnd |-> hnd,
                            heap |-> IF last THEN [heap EXCEPT ![h.ptr].strong = 1] ELSE heap], h)
       IN  /\ hnd' = st.hnd /\ heap' = st.heap
           /\ ret' = Ret("drop", "ok", Destroyed(heap, st.heap), 0)
    /\ UNCHANGED map

\* A local handle goes out of scope (or a temporary ends, or drop() is called).
\* A guard borrows the handle it was obtained through, so the handle outlives it.
drop(h) ==
    /\ ~Panicked
    /\ h \in Handles /\ Local(h)
    /\ h.r = 0 /\ h.w = 0
    /\ LET st == Release([hnd |-> hnd, heap |-> heap], h)
       IN  /\ hnd' = st.hnd /\ heap' = st.heap
           /\ ret' = Ret("drop", "ok", Destroyed(heap, st.heap), 0)
    /\ UNCHANGED map

\* ------------------------------------------------------------------ borrows
With(h, g) == (hnd (-) One(h)) (+) One(g)

\* borrow() that does not look at the flag.
borrow_unchecked(h) ==
    /\ ~Panicked
    /\ h \in Owns /\ Local(h)
    /\ heap[h.ptr].flag < MaxReads
    /\ heap' = [heap EXCEPT ![h.ptr].flag = IF @ < 0 THEN @ ELSE @ + 1]
    /\ hnd' = With(h, [h EXCEPT !.r = @ + 1])
    /\ ret' = Ret("borrow", "ok", 0, 0)
    /\ UNCHANGED map

\* HashableRef::borrow: RefCell::borrow panics when the flag says "writing".
borrow(h) ==
    /\ ~Panicked
    /\ h \in Owns /\ Local(h)
    /\ heap[h.ptr].flag < MaxReads
    /\ IF heap[h.ptr].flag >= 0
       THEN /\ heap' = [heap EXCEPT ![h.ptr].flag = @ + 1]
            /\ hnd' = With(h, [h EXCEPT !.r = @ + 1])
            /\ ret' = Ret("borrow", "ok", 0, 0)
       ELSE /\ ret' = Ret("borrow", "panic", 0, 0)
            /\ UNCHANGED <<heap, hnd>>
    /\ UNCHANGED map

\* borrow_mut() that only refuses a second writer.
borrow_mut_ignores_readers(h) ==
    /\ ~Panicked
    /\ h \in Owns /\ Local(h)
    /\ IF heap[h.ptr].flag >= 0
       THEN /\ heap' = [heap EXCEPT ![h.ptr].flag = -1]
            /\ hnd' = With(h, [h EXCEPT !.w = 1])
            /\ ret' = Ret("borrow_mut", "ok", 0, 0)
       ELSE /\ ret' = Ret("borrow_mut", "panic", 0, 0)
            /\ UNCHANGED <<heap, hnd>>
    /\ UNCHANGED map

\* HashableRef::borrow_mut: RefCell::borrow_mut panics unless the flag says "unused".
borrow_mut(h) ==
    /\ ~Panicked
    /\ h \in Owns /\ Local(h)
    /\ IF heap[h.ptr].flag = 0
       THEN /\ heap' = [heap EXCEPT ![h.ptr].flag = -1]
            /\ hnd' = With(h, [h EXCEPT !.w = 1])
            /\ ret' = Ret("borrow_mut", "ok", 0, 0)
       ELSE /\ ret' = Ret("borrow_mut", "panic", 0, 0)
            /\ UNCHANGED <<heap, hnd>>
    /\ UNCHANGED map

\* A Ref guard is released: flag - 1.
release_ref(h) ==
    /\ ~Panicked
    /\ h \in Handles /\ h.r > 0
    /\ heap' = [heap EXCEPT ![h.ptr].flag = @ - 1]
    /\ hnd' = With(h, [h EXCEPT !.r = @ - 1])
    /\ ret' = Ret("release_ref", "ok", 0, 0)
    /\ UNCHANGED map

\* A RefMut guard whose release forgets the flag.
release_ref_mut_keeps_flag(h) ==
    /\ ~Panicked
    /\ h \in Handles /\ h.w > 0
    /\ hnd' = With(h, [h EXCEPT !.w = 0])
    /\ ret' = Ret("release_ref_mut", "ok", 0, 0)
    /\ UNCHANGED heap
    /\ UNCHANGED map

\* A RefMut guard is released: flag back to "unused".
release_ref_mut(h) ==
    /\ ~Panicked
    /\ h \in Handles /\ h.w > 0
    /\ heap' = [heap EXCEPT ![h.ptr].flag = 0]
    /\ hnd' = With(h, [h EXCEPT !.w = 0])
    /\ ret' = Ret("release_ref_mut", "ok", 0, 0)
    /\ UNCHANGED map

\* The value is overwritten through an outstanding RefMut guard.
write(h, v) ==
    /\ ~Panicked
    /\ h \in Handles /\ h.w > 0
    /\ heap[h.ptr].val # v
    /\ heap' = [heap EXCEPT ![h.ptr].val = v]
    /\ ret' = Ret("write", "ok", 0, 0)
    /\ UNCHANGED hnd
    /\ UNCHANGED map

\* A local handle k is moved into the value behind an outstanding RefMut guard
\* of h, as in c.borrow_mut().0.push(d).
push(h, k) ==
    /\ ~Panicked
    /\ h \in Handles /\ h.w > 0
    /\ k \in Handles /\ Local(k) /\ k.r = 0 /\ k.w = 0
    /\ hnd' = With(k, [k EXCEPT !.owner = h.ptr])
    /\ ret' = Ret("push", "ok", 0, 0)
    /\ UNCHANGED heap
    /\ UNCHANGED map

\* ------------------------------------------------------- hashing, equality
\* RefCell::as_ptr: the address of the value inside the Rc box at ptr.
BoxAddr(p) == 64 * p
as_ptr(p)  == BoxAddr(p) + 24

\* The Hasher fed one pointer: a function of the pointer, with collisions.
HashOf(x) == (x \div 64) % 2

\* Hash for HashableRef: self.0.as_ptr().hash(state)
HashableRef_hash(h) == HashOf(as_ptr(h.ptr))

\* Equality of the contained values, as a derived PartialEq would give.
HashableRef_eq_by_value(h, k) == heap[h.ptr].val = heap[k.ptr].val

\* Equality that only compares the hashes of the two handles.
HashableRef_eq_by_hash(h, k) == HashableRef_hash(h) = HashableRef_hash(k)

\* PartialEq for HashableRef: self.0.as_ptr() == other.0.as_ptr()
HashableRef_eq(h, k) == as_ptr(h.ptr) = as_ptr(k.ptr)

\* An upgrade that succeeds for as long as the box is allocated.
Upgradeable_while_allocated(w) == heap[w.ptr].used

\* self.0.upgrade() of a Weak: is there an Rc to unwrap?
Upgradeable(w) == heap[w.ptr].strong > 0

\* Hash for WeakHashableRef: self.0.upgrade().unwrap().as_ptr().hash(state);
\* unwrap() of None panics.  The temporary Rc is released before returning.
WeakHashableRef_hash(w) ==
    IF Upgradeable(w) THEN Ret("weak_hash", "ok", HashOf(as_ptr(w.ptr)), 0)
    ELSE Ret("weak_hash", "panic", 0, 0)

\* Comparison of the stored addresses, without upgrade().
WeakHashableRef_eq_by_address(w, k) ==
    Ret("weak_eq", IF as_ptr(w.ptr) = as_ptr(k.ptr) THEN "true" ELSE "false", 0, 0)

\* Comparison of the contained values of the two upgraded handles.
WeakHashableRef_eq_by_value(w, k) ==
    IF Upgradeable(w) /\ Upgradeable(k)
    THEN Ret("weak_eq", IF heap[w.ptr].val = heap[k.ptr].val THEN "true" ELSE "false", 0, 0)
    ELSE Ret("weak_eq", "panic", 0, 0)

\* PartialEq for WeakHashableRef:
\* self.0.upgrade().unwrap().as_ptr() == other.0.upgrade().unwrap().as_ptr()
WeakHashableRef_eq(w, k) ==
    IF Upgradeable(w) /\ Upgradeable(k)
    THEN Ret("weak_eq", IF as_ptr(w.ptr) = as_ptr(k.ptr) THEN "true" ELSE "false", 0, 0)
    ELSE Ret("weak_eq", "panic", 0, 0)

hash(h) ==
    /\ ~Panicked
    /\ h \in Owns /\ Local(h)
    /\ ret' = Ret("hash", "ok", HashableRef_hash(h), 0)
    /\ UNCHANGED <<hnd, heap>>
    /\ UNCHANGED map

eq(h, k) ==
    /\ ~Panicked
    /\ h \in Owns /\ Local(h) /\ k \in Owns /\ Local(k)
    /\ ret' = Ret("eq", IF HashableRef_eq(h, k) THEN "true" ELSE "false", 0, 0)
    /\ UNCHANGED <<hnd, heap>>
    /\ UNCHANGED map

weak_hash(w) ==
    /\ ~Panicked
    /\ w \in Weaks /\ Local(w)
    /\ ret' = WeakHashableRef_hash(w)
    /\ UNCHANGED <<hnd, heap>>
    /\ UNCHANGED map

weak_eq(w, k) ==
    /\ ~Panicked
    /\ w \in Weaks /\ Local(w) /\ k \in Weaks /\ Local(k)
    /\ ret' = WeakHashableRef_eq(w, k)
    /\ UNCHANGED <<hnd, heap>>
    /\ UNCHANGED map

Next ==
    \/ \E v \in Values : new(v)
    \/ \E h \in Handles : clone(h)
    \/ \E h \in Handles : downgrade(h)
    \/ \E w \in Handles : upgrade(w)
    \/ \E w \in Handles : weak_clone(w)
    \/ \E h \in Handles : drop(h)
    \/ \E h \in Handles : borrow(h)
    \/ \E h \in Handles : borrow_mut(h)
    \/ \E h \in Handles : release_ref(h)
    \/ \E h \in Handles : release_ref_mut(h)
    \/ \E h \in Handles, v \in Values : write(h, v)
    \/ \E h \in Handles : hash(h)
    \/ \E h \in Handles, k \in Handles : eq(h, k)
    \/ \E w \in Handles : weak_hash(w)
    \/ \E w \in Handles, k \in Handles : weak_eq(w, k)

Spec == Init /\ [][Next]_vars

\* Client code that builds a graph: handles are also moved into the values of
\* other nodes, and released with them.
GraphNext ==
    \/ \E v \in Values : new(v)
    \/ \E h \in Handles : clone(h)
    \/ \E h \in Handles : downgrade(h)
    \/ \E w \in Handles : upgrade(w)
    \/ \E h \in Handles : drop(h)
    \/ \E h \in Handles : borrow_mut(h)
    \/ \E h \in Handles : release_ref_mut(h)
    \/ \E h \in Handles, k \in Handles : push(h, k)

GraphSpec == Init /\ [][GraphNext]_vars

\* struct Node(Vec<HashableRef<Node>>): the nodes that the values of the nodes
\* S hold a HashableRef to, the handles being those of the bag B.
Kids(B, S) == {k.ptr : k \in {k \in BagToSet(B) : k.kind = "own" /\ k.owner \in S}}
RECURSIVE Grow(_, _)
Grow(B, S) == LET T == S \cup Kids(B, S) IN IF T = S THEN S ELSE Grow(B, T)
\* The nodes reached from p along one owning edge or more.
Desc(B, p) == Grow(B, Kids(B, {p}))

\* ------------------------------------------------------------- the DAG test
\* can_keep_dag_of_references: five nodes, each in a local at first.
NumNodes == 5
Nodes    == 1..NumNodes

DagInit ==
    /\ heap = [p \in Nodes |-> [used |-> TRUE, id |-> p, strong |-> 1, weak |-> 0, flag |-> 0,
                                 val |-> "Node", alive |-> TRUE]]
    /\ hnd = SetToBag({Rc(p, p) : p \in Nodes})
    /\ ret = Ret("init", "ok", 0, 0)
    /\ map = <<>>

\* The handles in node.0, the nodes a traversal from p reaches, whether it
\* comes back to a node it is in, and whether it meets a node that is
\* mutably borrowed.
Children(p) == {k \in Owns : k.owner = p}
Reached(p)  == {p} \cup Desc(hnd, p)
Cyclic(p)   == \E q \in Reached(p) : q \in Desc(hnd, q)
Locked(p)   == \E q \in Reached(p) : heap[q].flag < 0

\* count_nodes: 1 for the node, plus the count of each child in node.0.
RECURSIVE CountNodes(_), CountKids(_)
CountNodes(p) == 1 + CountKids(Children(p))
CountKids(S)  == IF S = {} THEN 0
                 ELSE LET k == CHOOSE k \in S : TRUE
                      IN  CopiesIn(k, hnd) * CountNodes(k.ptr) + CountKids(S \ {k})

\* count_nodes_stack: the queue of node pointers; each pop counts once and
\* pushes the children of the node popped.
RECURSIVE PtrSeq(_), CountQueue(_, _)
PtrSeq(S) == IF S = {} THEN <<>>
             ELSE LET k == CHOOSE k \in S : TRUE
                  IN  [i \in 1..CopiesIn(k, hnd) |-> k.ptr] \o PtrSeq(S \ {k})
CountQueue(q, n) == IF q = <<>> THEN n
                    ELSE CountQueue(Tail(q) \o PtrSeq(Children(Head(q))), n + 1)

\* A count that visits each node once, however many parents it has.
count_nodes_once(h) ==
    /\ ~Panicked
    /\ h \in Owns /\ Local(h)
    /\ ret' = IF Locked(h.ptr) THEN Ret("count_nodes", "panic", 0, 0)
              ELSE Ret("count_nodes", "ok", Cardinality(Reached(h.ptr)), 0)
    /\ UNCHANGED <<hnd, heap, map>>

\* count_nodes(&a.borrow()): a.borrow() and each child.borrow() panic on a node
\* that is mutably borrowed; on a cycle the recursion never returns.  The
\* guards are all released when the call returns.
count_nodes(h) ==
    /\ ~Panicked
    /\ h \in Owns /\ Local(h)
    /\ \/ Locked(h.ptr) /\ ret' = Ret("count_nodes", "panic", 0, 0)
       \/ Cyclic(h.ptr) /\ heap[h.ptr].flag >= 0 /\ ret' = Ret("count_nodes", "overflow", 0, 0)
       \/ /\ ~Locked(h.ptr) /\ ~Cyclic(h.ptr)
          /\ ret' = Ret("count_nodes", "ok", CountNodes(h.ptr), 0)
    /\ UNCHANGED <<hnd, heap, map>>

\* count_nodes_stack(&a.borrow()): the same borrows, one child at a time; on a
\* cycle the queue grows for ever.
count_nodes_stack(h) ==
    /\ ~Panicked
    /\ h \in Owns /\ Local(h)
    /\ \/ Locked(h.ptr) /\ ret' = Ret("count_nodes_stack", "panic", 0, 0)
       \/ Cyclic(h.ptr) /\ heap[h.ptr].flag >= 0 /\ ret' = Ret("count_nodes_stack", "overflow", 0, 0)
       \/ /\ ~Locked(h.ptr) /\ ~Cyclic(h.ptr)
          /\ ret' = Ret("count_nodes_stack", "ok", CountQueue(<<h.ptr>>, 0), 0)
    /\ UNCHANGED <<hnd, heap, map>>

DagNext ==
    \/ \E h \in Handles : clone(h)
    \/ \E h \in Handles : drop(h)
    \/ \E h \in Handles : borrow_mut(h)
    \/ \E h \in Handles : release_ref_mut(h)
    \/ \E h \in Handles, k \in Handles : push(h, k)
    \/ \E h \in Handles : count_nodes(h)
    \/ \E h \in Handles : count_nodes_stack(h)

DagSpec == DagInit /\ [][DagNext]_vars

\* ------------------------------------------------------------- the map tests
\* can_store_owning_references_to_weak_references: three objects a, b, c and a
\* HashMap<HashableRef, WeakHashableRef>.  The table keeps with each key the
\* hash computed when it was inserted; a search compares the key it is given
\* with the stored keys of equal hash, in probe order, up to the first equal
\* one.  Where a new entry lands in that order depends on hash bits that are
\* not modelled: any place.
NumObjects == 3
Objects    == 1..NumObjects
Names      == <<"A", "B", "C">>
InMap      == -1     \* the owner of the handles that the map holds

MapInit ==
    \E at \in [Objects -> Objects] :
        /\ \A i \in Objects, j \in Objects : at[i] = at[j] => i = j
        /\ heap = [p \in Objects |->
                     LET i == CHOOSE i \in Objects : at[i] = p
                     IN  [used |-> TRUE, id |-> i, strong |-> 1, weak |-> 0, flag |-> 0,
                          val |-> Names[i], alive |-> TRUE]]
        /\ hnd = SetToBag({Rc(at[i], i) : i \in Objects})
        /\ ret = Ret("init", "ok", 0, 0)
        /\ map = <<>>

InsertAt(s, i, e) == SubSeq(s, 1, i - 1) \o <<e>> \o SubSeq(s, i, Len(s))

\* The entry a search for the HashableRef k ends at; 0 when there is none.
MapFind(k) ==
    LET hit == {j \in 1..Len(map) :
                   map[j].hash = HashableRef_hash(k) /\ HashableRef_eq(k, map[j].key)}
    IN  IF hit = {} THEN 0 ELSE CHOOSE j \in hit : \A i \in hit : j <= i

\* h.insert(a.clone(), b.downgrade()): under an equal key the value is replaced
\* and the old value and the new key are released; otherwise the entry is added.
insert(h, g) ==
    /\ ~Panicked
    /\ h \in Owns /\ Local(h) /\ g \in Owns /\ Local(g)
    /\ LET k == [Rc(h.ptr, h.id) EXCEPT !.owner = InMap]
           v == [Weak(g.ptr, g.id) EXCEPT !.owner = InMap]
           j == MapFind(k)
           heap1 == [heap EXCEPT ![g.ptr].weak = @ + 1]
       IN  IF j > 0
           THEN /\ map' = [map EXCEPT ![j].val = v]
                /\ LET st == Release([hnd |-> hnd (+) One(v), heap |-> heap1], map[j].val)
                   IN  hnd' = st.hnd /\ heap' = st.heap
                /\ ret' = Ret("insert", "replaced", 0, 0)
           ELSE /\ \E i \in 1..(Len(map) + 1) :
                      map' = InsertAt(map, i, [hash |-> HashableRef_hash(k), key |-> k, val |-> v])
                /\ hnd' = hnd (+) One(k) (+) One(v)
                /\ heap' = [heap1 EXCEPT ![h.ptr].strong = @ + 1]
                /\ ret' = Ret("insert", "added", 0, 0)

\* h.get(&key): the value of the entry found, if any.
get(h) ==
    /\ ~Panicked
    /\ h \in Owns /\ Local(h)
    /\ LET j == MapFind(h)
       IN  ret' = IF j > 0 THEN Ret("get", "some", map[j].val.ptr, map[j].val.id)
                           ELSE Ret("get", "absent", 0, 0)
    /\ UNCHANGED <<hnd, heap, map>>

MapNext ==
    \/ \E h \in Handles, g \in Handles : insert(h, g)
    \/ \E h \in Handles : get(h)
    \/ \E h \in Handles : drop(h)

MapSpec == MapInit /\ [][MapNext]_vars

\* can_store_weak_references_as_a_lookup: the same objects and a
\* HashMap<WeakHashableRef, WeakHashableRef>.  Hashing the key that is passed
\* and comparing it with a stored key go through upgrade().unwrap().
\* The entry a search for the WeakHashableRef k of hash x ends at; 0 when there
\* is none, -1 when a comparison on the way panics.
WeakMapFind(k, x) ==
    LET cmp(j) == WeakHashableRef_eq(k, map[j].key).res
        hit    == {j \in 1..Len(map) : map[j].hash = x /\ cmp(j) # "false"}
    IN  IF hit = {} THEN 0
        ELSE LET j == CHOOSE j \in hit : \A i \in hit : j <= i
             IN  IF cmp(j) = "panic" THEN -1 ELSE j

\* h.insert(a.downgrade(), b.downgrade()).  An insert may first rehash every
\* stored key to make room, which hashes them again.
weak_insert(h, g) ==
    /\ ~Panicked
    /\ h \in Owns /\ Local(h) /\ g \in Owns /\ Local(g)
    /\ LET k == [Weak(h.ptr, h.id) EXCEPT !.owner = InMap]
           v == [Weak(g.ptr, g.id) EXCEPT !.owner = InMap]
           x == WeakHashableRef_hash(k)
           j == WeakMapFind(k, x.val)
           heap1 == [heap EXCEPT ![g.ptr].weak = @ + 1]
       IN  \E rehash \in BOOLEAN :
           IF \/ x.res = "panic"
              \/ rehash /\ \E i \in 1..Len(map) : WeakHashableRef_hash(map[i].key).res = "panic"
              \/ j < 0
           THEN /\ ret' = Ret("weak_insert", "panic", 0, 0)
                /\ UNCHANGED <<hnd, heap, map>>
           ELSE IF j > 0
           THEN /\ map' = [map EXCEPT ![j].val = v]
                /\ LET st == Release([hnd |-> hnd (+) One(v), heap |-> heap1], map[j].val)
                   IN  hnd' = st.hnd /\ heap' = st.heap
                /\ ret' = Ret("weak_insert", "replaced", 0, 0)
           ELSE /\ \E i \in 1..(Len(map) + 1) :
                      map' = InsertAt(map, i, [hash |-> x.val, key |-> k, val |-> v])
                /\ hnd' = hnd (+) One(k) (+) One(v)
                /\ heap' = [heap1 EXCEPT ![h.ptr].weak = @ + 1]
                /\ ret' = Ret("weak_insert", "added", 0, 0)

\* h.get(&c.downgrade()) and upgrade() of the value found; the temporary key
\* and the upgraded handle are released before the next statement.
weak_get(h) ==
    /\ ~Panicked
    /\ h \in Owns /\ Local(h)
    /\ LET k == Weak(h.ptr, h.id)
           x == WeakHashableRef_hash(k)
           j == WeakMapFind(k, x.val)
       IN  ret' = IF x.res = "panic" \/ j < 0 THEN Ret("weak_get", "panic", 0, 0)
                  ELSE IF j = 0 THEN Ret("weak_get", "absent", 0, 0)
                  ELSE Ret("weak_get", IF Upgradeable(map[j].val) THEN "some" ELSE "none",
                           map[j].val.ptr, map[j].val.id)
    /\ UNCHANGED <<hnd, heap, map>>

WeakMapNext ==
    \/ \E h \in Handles, g \in Handles : weak_insert(h, g)
    \/ \E h \in Handles : weak_get(h)
    \/ \E h \in Handles : drop(h)

WeakMapSpec == MapInit /\ [][WeakMapNext]_vars

\* ------------------------------------------------------------------ claims
\* Ghost views of the handles, independent of the counters kept in the boxes.
HasOwn(i)    == \E h \in Owns : h.id = i
ValueLive(i) == \E p \in Addrs : heap[p].used /\ heap[p].id = i /\ heap[p].alive

RECURSIVE SumR(_), SumW(_)
SumR(S) == IF S = {} THEN 0
           ELSE LET h == CHOOSE x \in S : TRUE IN CopiesIn(h, hnd) * h.r + SumR(S \ {h})
SumW(S) == IF S = {} THEN 0
           ELSE LET h == CHOOSE x \in S : TRUE IN CopiesIn(h, hnd) * h.w + SumW(S \ {h})
\* The Ref guards and the RefMut guards outstanding on the allocation i.
Readers(i) == SumR({h \in Handles : h.id = i})
Writers(i) == SumW({h \in Handles : h.id = i})

\* C1: two HashableRef are equal iff they are handles of the same allocation,
\* whatever the values they contain, and equal handles hash alike; overwriting
\* a value through borrow_mut changes neither the hash nor the equality of any
\* handle.
C1_IdentityEquality ==
    /\ [](\A h \in Owns, k \in Owns :
            /\ HashableRef_eq(h, k) <=> h.id = k.id
            /\ HashableRef_eq(h, k) => HashableRef_hash(h) = HashableRef_hash(k))
    /\ [][ret'.op = "write" =>
            \A h \in Owns :
               /\ h \in Owns'
               /\ HashableRef_hash(h)' = HashableRef_hash(h)
               /\ \A k \in Owns : HashableRef_eq(h, k)' = HashableRef_eq(h, k)]_vars

\* A handle, a clone of it and a handle of another allocation holding an equal
\* value, right after a value was overwritten through borrow_mut.
C1_Witness ==
    /\ ret.op = "write"
    /\ \E h \in Owns, k \in Owns, g \in Owns :
          /\ h # k /\ h.id = k.id
          /\ g.id # h.id /\ heap[g.ptr].val = heap[h.ptr].val

\* C2: the value of an allocation is live exactly when a HashableRef to it exists.
C2_ValueLiveIffOwned ==
    \A i \in Ids : ValueLive(i) <=> HasOwn(i)

\* The last HashableRef was released while two WeakHashableRef remain.
C2_Witness ==
    /\ ret.op = "drop"
    /\ \E w \in Weaks : CopiesIn(w, hnd) >= 2 /\ ~HasOwn(w.id) /\ ~ValueLive(w.id)

\* C3: once no HashableRef to an allocation exists, upgrade() of any
\* WeakHashableRef to it returns None and no step brings a HashableRef back.
C3_DeadStaysDead ==
    [][\A w \in Weaks :
          ~HasOwn(w.id) =>
              /\ upgrade(w) => ret'.res = "none"
              /\ ~(HasOwn(w.id))']_vars

\* upgrade() returned None for an allocation that two Weak handles still name.
C3_Witness ==
    /\ ret.op = "upgrade" /\ ret.res = "none"
    /\ \E w \in Weaks : CopiesIn(w, hnd) >= 2 /\ ~HasOwn(w.id)

\* C4: while a HashableRef to the allocation exists, upgrade() returns Some in
\* any borrow state, and what it returns equals every HashableRef of the
\* allocation the Weak was downgraded from.
C4_UpgradeRoundTrip ==
    /\ [](\A w \in Weaks : (HasOwn(w.id) /\ Local(w) /\ Room /\ ~Panicked) => ENABLED upgrade(w))
    /\ [][ret'.op = "upgrade" =>
            \A w \in Weaks :
               (HasOwn(w.id) /\ upgrade(w)) =>
                   /\ ret'.res = "some"
                   /\ ret'.id = w.id
                   /\ \A h \in Owns : h.id = w.id => HashableRef_eq(Rc(ret'.val, ret'.id), h)]_vars

\* upgrade() returned Some while a RefMut guard was outstanding on the allocation.
C4_Witness ==
    /\ ret.op = "upgrade" /\ ret.res = "some"
    /\ Writers(ret.id) = 1

\* C5: a RefMut guard on an allocation coexists with no other guard on it,
\* through whichever handles the guards were obtained.
C5_WriterExclusive ==
    \A i \in Ids : Writers(i) = 0 \/ (Writers(i) = 1 /\ Readers(i) = 0)

\* A RefMut guard is out through one handle while another handle of the same
\* allocation exists, and a second allocation has two Ref guards.
C5_Witness ==
    /\ \E h \in Owns, k \in Owns : h.id = k.id /\ h.w = 1 /\ k.w = 0
    /\ \E i \in Ids : Readers(i) = 2

\* C6: borrow_mut() panics exactly when some guard is outstanding on the
\* allocation, borrow() exactly when a RefMut guard is; both answer at once.
C6_BorrowConflict ==
    /\ [](\A h \in Owns :
            (Local(h) /\ ~Panicked) =>
                /\ ENABLED borrow_mut(h)
                /\ Readers(h.id) < MaxReads => ENABLED borrow(h))
    /\ [][ret'.op \in {"borrow", "borrow_mut"} =>
            \A h \in Owns :
               /\ borrow_mut(h) => (ret'.res = "panic" <=> Readers(h.id) + Writers(h.id) > 0)
               /\ borrow(h) => (ret'.res = "panic" <=> Writers(h.id) > 0)]_vars

\* borrow_mut() panicked on an allocation that only had Ref guards outstanding.
C6_Witness ==
    /\ ret.op = "borrow_mut" /\ ret.res = "panic"
    /\ \E i \in Ids : Readers(i) = 2 /\ Writers(i) = 0

\* C7: releasing the RefMut guard, or the last Ref guard, leaves the allocation
\* unborrowed: the borrow() or borrow_mut() that follows succeeds.
C7_ReleaseRestores ==
    [][/\ ret'.op \in {"release_ref", "release_ref_mut"} =>
            \A h \in Handles :
               /\ release_ref_mut(h) => heap'[h.ptr].flag = 0
               /\ (release_ref(h) /\ Readers(h.id) = 1) => heap'[h.ptr].flag = 0
       /\ (ret.op \in {"release_ref", "release_ref_mut"} /\ ret'.op \in {"borrow", "borrow_mut"}) =>
            \A h \in Owns :
               (Readers(h.id) + Writers(h.id) = 0 /\ (borrow_mut(h) \/ borrow(h))) => ret'.res = "ok"]_vars

\* The last Ref guard on an allocation with two equal handles was released.
C7_Witness ==
    /\ ret.op = "release_ref"
    /\ \E h \in Owns : Readers(h.id) = 0 /\ heap[h.ptr].flag = 0 /\ h.r = 0 /\ CopiesIn(h, hnd) >= 2

\* C8: hashing a WeakHashableRef whose allocation has no HashableRef left, or
\* comparing two of which one is in that case, panics.
C8_DeadWeakPanics ==
    [][ret'.op \in {"weak_hash", "weak_eq"} => \A w \in Weaks :
          /\ (weak_hash(w) /\ ~HasOwn(w.id)) => ret'.res = "panic"
          /\ \A k \in Weaks :
                (weak_eq(w, k) /\ (~HasOwn(w.id) \/ ~HasOwn(k.id))) => ret'.res = "panic"]_vars

\* == panicked on a live and a dead WeakHashableRef.
C8_Witness ==
    /\ ret.op = "weak_eq" /\ ret.res = "panic"
    /\ \E w \in Weaks, k \in Weaks : HasOwn(w.id) /\ ~HasOwn(k.id)

\* C9: for two WeakHashableRef of live allocations == is true iff they name the
\* same allocation, and a live WeakHashableRef hashes like the HashableRef of
\* its allocation.
C9_LiveWeakIdentity ==
    [][ret'.op \in {"weak_hash", "weak_eq"} => \A w \in Weaks :
          /\ (weak_hash(w) /\ HasOwn(w.id)) =>
                /\ ret'.res = "ok"
                /\ \A h \in Owns : h.id = w.id => ret'.val = HashableRef_hash(h)
          /\ \A k \in Weaks :
                (weak_eq(w, k) /\ HasOwn(w.id) /\ HasOwn(k.id)) =>
                    (ret'.res = "true" <=> w.id = k.id)]_vars

\* == returned false for WeakHashableRef of two live allocations.
C9_Witness ==
    /\ ret.op = "weak_eq" /\ ret.res = "false"
    /\ \E w \in Weaks, k \in Weaks : w.id # k.id /\ HasOwn(w.id) /\ HasOwn(k.id)

\* C10: hashing and comparing WeakHashableRef always return a result.
C10_WeakHashTotal ==
    ret.op \in {"weak_hash", "weak_eq"} => ret.res # "panic"

\* The handles of one kind that point at the box at p, counted in the bag.
RECURSIVE Copies(_)
Copies(S) == IF S = {} THEN 0
             ELSE LET h == CHOOSE x \in S : TRUE IN CopiesIn(h, hnd) + Copies(S \ {h})
StrongRefs(p) == Copies({h \in Owns : h.ptr = p})
WeakRefs(p)   == Copies({h \in Weaks : h.ptr = p})

\* The counters of the box at p after the step are those before it plus ds, dw.
Counted(p, ds, dw) ==
    /\ heap'[p].strong = heap[p].strong + ds
    /\ heap'[p].weak = heap[p].weak + dw
    /\ \A q \in Addrs \ {p} : heap'[q].strong = heap[q].strong /\ heap'[q].weak = heap[q].weak

\* C11: the strong count of an allocation is the number of HashableRef to it
\* that exist and its weak count the number of WeakHashableRef; a free box has
\* neither.  new() gives 1 and 0; clone() and a successful upgrade() add 1 to
\* the strong count only, downgrade() and the Weak clone() add 1 to the weak
\* count only, and a release takes 1 from the counter of the released kind.
C11_CountsMatchHandles ==
    /\ [](\A p \in Addrs :
            /\ heap[p].strong = StrongRefs(p)
            /\ heap[p].weak = WeakRefs(p)
            /\ \A h \in Handles : h.ptr = p => heap[p].used /\ heap[p].id = h.id)
    /\ [][/\ ret'.op = "new" =>
               \E p \in Addrs : ~heap[p].used /\ heap'[p].used /\ Counted(p, 1, 0)
          /\ ret'.op \in {"clone", "downgrade", "upgrade", "weak_clone", "drop"} =>
               \A h \in Handles :
                  /\ clone(h) => Counted(h.ptr, 1, 0)
                  /\ downgrade(h) => Counted(h.ptr, 0, 1)
                  /\ weak_clone(h) => Counted(h.ptr, 0, 1)
                  /\ upgrade(h) => Counted(h.ptr, IF ret'.res = "some" THEN 1 ELSE 0, 0)
                  /\ drop(h) => IF h.kind = "own" THEN Counted(h.ptr, 0 - 1, 0)
                                                  ELSE Counted(h.ptr, 0, 0 - 1)]_vars

\* own1, its clone and one Weak are left after the temporary of
\* own1.downgrade().clone() was released: strong count 2, weak count 1.
C11_Witness ==
    /\ ret.op = "drop"
    /\ \E p \in Addrs :
          /\ heap[p].strong = 2 /\ StrongRefs(p) = 2
          /\ heap[p].weak = 1 /\ WeakRefs(p) = 1

\* Where the box at p stands: Live while it has a HashableRef, WeakOnly while
\* only WeakHashableRef are left, Reclaimed once its storage is free.
Phase(p) == IF ~heap[p].used THEN "Reclaimed"
            ELSE IF heap[p].strong > 0 THEN "Live" ELSE "WeakOnly"

\* C12: an allocation only moves Live -> WeakOnly (the last HashableRef is
\* released while the weak count is positive), Live -> Reclaimed (the same
\* with weak count 0) and WeakOnly -> Reclaimed (the last WeakHashableRef is
\* released); a reclaimed address only comes back as a new allocation.  The
\* storage is in use exactly while one of the counts is positive, and clone()
\* of a WeakHashableRef succeeds in WeakOnly.
C12_Lifecycle ==
    /\ [](\A p \in Addrs :
            /\ heap[p].used <=> heap[p].strong + heap[p].weak > 0
            /\ heap[p].alive <=> heap[p].strong > 0)
    /\ [](\A w \in Weaks :
            (Phase(w.ptr) = "WeakOnly" /\ Local(w) /\ Room /\ ~Panicked) => ENABLED weak_clone(w))
    /\ [][/\ \A p \in Addrs :
               /\ Phase(p)' # Phase(p) =>
                     \/ /\ Phase(p) = "Reclaimed" /\ Phase(p)' = "Live"
                        /\ ret'.op = "new"
                        /\ \A h \in Handles : h.id # heap'[p].id
                     \/ /\ Phase(p) = "Live" /\ Phase(p)' = "WeakOnly"
                        /\ ret'.op = "drop" /\ heap[p].strong = 1 /\ heap[p].weak > 0
                     \/ /\ Phase(p) = "Live" /\ Phase(p)' = "Reclaimed"
                        /\ ret'.op = "drop" /\ heap[p].strong = 1 /\ heap[p].weak = 0
                     \/ /\ Phase(p) = "WeakOnly" /\ Phase(p)' = "Reclaimed"
                        /\ ret'.op = "drop" /\ heap[p].weak = 1
               /\ (heap[p].used /\ heap'[p].used) => heap'[p].id = heap[p].id
          /\ ret'.op \in {"drop", "weak_clone"} =>
               \A h \in Handles :
                  /\ (drop(h) /\ h.kind = "own" /\ heap[h.ptr].strong = 1) =>
                        Phase(h.ptr)' = IF heap[h.ptr].weak > 0 THEN "WeakOnly" ELSE "Reclaimed"
                  /\ (drop(h) /\ h.kind = "weak" /\ heap[h.ptr].strong = 0 /\ heap[h.ptr].weak = 1) =>
                        Phase(h.ptr)' = "Reclaimed"
                  /\ (weak_clone(h) /\ Phase(h.ptr) = "WeakOnly") =>
                        /\ ret'.res = "ok"
                        /\ Phase(h.ptr)' = "WeakOnly"
                        /\ CopiesIn(h, hnd') = CopiesIn(h, hnd) + 1]_vars

\* A WeakHashableRef was cloned while its allocation had no HashableRef left.
C12_Witness ==
    /\ ret.op = "weak_clone"
    /\ \E p \in Addrs : Phase(p) = "WeakOnly" /\ heap[p].weak = 2

\* The allocation that the entry of the map m under the allocation i names; 0
\* when m has no entry under i.
Bound(m, i) ==
    IF \E j \in 1..Len(m) : m[j].key.id = i
    THEN m[CHOOSE j \in 1..Len(m) : m[j].key.id = i].val.id ELSE 0
KeyIds(m) == {m[j].key.id : j \in 1..Len(m)}

\* C13: a map keyed by HashableRef has one entry per allocation used as a key:
\* insert under a handle of an allocation that is a key already replaces the
\* value of its entry, any other insert adds one entry and leaves the others
\* alone, and get returns the value inserted last under the allocation.
C13_OneEntryPerAllocation ==
    /\ [](\A i \in 1..Len(map), j \in 1..Len(map) : map[i].key.id = map[j].key.id => i = j)
    /\ [][/\ ret'.op = "insert" =>
               \A h \in Owns, g \in Owns :
                  insert(h, g) =>
                     /\ Bound(map', h.id) = g.id
                     /\ \A i \in Objects \ {h.id} : Bound(map', i) = Bound(map, i)
                     /\ Len(map') = Cardinality(KeyIds(map) \cup {h.id})
                     /\ ret'.res = IF h.id \in KeyIds(map) THEN "replaced" ELSE "added"
          /\ ret'.op = "get" =>
               \A h \in Owns : get(h) => ret'.id = Bound(map, h.id)
          /\ ret'.op # "insert" => map' = map]_vars

\* An insert under a key of the map replaced a value while the map had three
\* entries, two of them with keys of equal hash.
C13_Witness ==
    /\ ret.op = "insert" /\ ret.res = "replaced"
    /\ Len(map) = NumObjects
    /\ \E i \in 1..Len(map), j \in 1..Len(map) : i # j /\ map[i].hash = map[j].hash

\* The entries a -> b, b -> c, c -> a of the test, a being the object 1.
Cycle3 == Bound(map, 1) = 2 /\ Bound(map, 2) = 3 /\ Bound(map, 3) = 1

\* C14: with the entries a -> b, b -> c, c -> a in a map keyed by
\* WeakHashableRef and no HashableRef to a left, a lookup with a downgrade of
\* c does not panic and finds the entry of c, whose value upgrades to None.
C14_LookupAfterRelease ==
    [][ret'.op = "weak_get" =>
          \A h \in Owns :
             (weak_get(h) /\ h.id = 3 /\ Cycle3 /\ ~HasOwn(1)) =>
                 ret'.res = "none" /\ ret'.id = 1]_vars

\* C15: releasing the only HashableRef of an allocation makes every
\* WeakHashableRef to it fail to upgrade and leaves the rest as it was: the
\* boxes of the other allocations, the map, and what every other
\* WeakHashableRef upgrades to.
C15_ReleaseOnlyKillsOwn ==
    [][ret'.op = "drop" =>
          \A h \in Owns :
             (drop(h) /\ heap[h.ptr].strong = 1) =>
                 /\ \A w \in Weaks :
                       /\ w \in Weaks'
                       /\ w.id = h.id => ~Upgradeable(w)'
                       /\ w.id # h.id => (Upgradeable(w)' <=> Upgradeable(w))
                 /\ \A p \in Objects \ {h.ptr} : heap'[p] = heap[p]
                 /\ map' = map]_vars

\* The only HashableRef to a was just released in the cycle a -> b -> c -> a
\* of Weak edges, b and c being alive.
C15_Witness ==
    /\ ret.op = "drop"
    /\ Cycle3
    /\ ~HasOwn(1) /\ HasOwn(2) /\ HasOwn(3)
    /\ \E w \in Weaks : w.id = 1 /\ ~Upgradeable(w)
    /\ \E w \in Weaks : w.id = 2 /\ Upgradeable(w)

\* p lies on a cycle of owning edges; the nodes of its cycles; p is leaked when
\* every HashableRef to a node of its cycles is stored in one of them.
OnCycle(B, p) == p \in Desc(B, p)
Cyc(B, p)     == {q \in Desc(B, p) : p \in Desc(B, q)}
Leaked(p)     == /\ OnCycle(hnd, p)
                 /\ LET C == Cyc(hnd, p)
                    IN  \A k \in Owns : k.ptr \in C => k.owner \in C

\* C16: a node on a cycle of HashableRef stored in values stays on it, with a
\* strong count of at least 1 and its value in place, whatever step is taken;
\* once no HashableRef to the cycle is held outside it, only the upgrade of a
\* WeakHashableRef gives one again.
C16_OwningCycleLeaks ==
    /\ [](\A p \in Kids(hnd, Addrs) :
            Leaked(p) => heap[p].strong >= 1 /\ heap[p].alive /\ heap[p].val # Dropped)
    /\ [][\A p \in Kids(hnd, Addrs) :
            /\ OnCycle(hnd, p) =>
                  /\ OnCycle(hnd', p)
                  /\ heap'[p].strong >= 1 /\ heap'[p].alive
                  /\ heap'[p].id = heap[p].id /\ heap'[p].val = heap[p].val
            /\ Leaked(p) => (Leaked(p)' \/ ret'.op = "upgrade")]_vars

\* Two nodes hold each other and the last handle a local had was released.
C16_Witness ==
    /\ ret.op = "drop"
    /\ \E p \in Addrs : Leaked(p) /\ Cardinality(Cyc(hnd, p)) = 2

\* The references to q that a step releases when it releases the handle h and
\* destroys the values of the nodes G: h itself and the handles stored in G.
LostS(q, h, G) == (IF h.kind = "own" /\ h.ptr = q THEN 1 ELSE 0)
                  + Copies({k \in Owns : k.ptr = q /\ k.owner \in G})
LostW(q, h, G) == (IF h.kind = "weak" /\ h.ptr = q THEN 1 ELSE 0)
                  + Copies({k \in Weaks : k.ptr = q /\ k.owner \in G})

\* C19: a release destroys the value of a node exactly when it takes its last
\* HashableRef, and with the value every handle stored in it is released in
\* the same step: a node is destroyed when all its HashableRef were the
\* released handle or stored in destroyed values, and otherwise keeps its
\* value with its counts reduced by the number of references released.
C19_DestructionCascades ==
    [][ret'.op = "drop" =>
          \A h \in Handles :
             drop(h) =>
                LET G == {p \in Addrs : heap[p].alive /\ ~heap'[p].alive}
                IN  /\ ret'.val = Cardinality(G)
                    /\ G # {} => (h.kind = "own" /\ h.ptr \in G /\ G \subseteq {h.ptr} \cup Desc(hnd, h.ptr))
                    /\ \A k \in Handles :
                          CopiesIn(k, hnd') = IF k.owner \in G THEN 0
                                              ELSE IF k = h THEN CopiesIn(k, hnd) - 1
                                              ELSE CopiesIn(k, hnd)
                    /\ \A q \in Addrs :
                          /\ heap[q].alive =>
                                /\ q \in G <=> heap[q].strong = LostS(q, h, G)
                                /\ q \notin G =>
                                      /\ heap'[q].strong = heap[q].strong - LostS(q, h, G)
                                      /\ heap'[q].val = heap[q].val
                          /\ heap'[q].used => heap'[q].weak = heap[q].weak - LostW(q, h, G)
                          /\ heap[q].used =>
                                (heap'[q].used <=> heap[q].strong + heap[q].weak
                                                   > LostS(q, h, G) + LostW(q, h, G))]_vars

\* One release destroyed two values: that of a node and that of the child its
\* value held the only HashableRef to.
C19_Witness ==
    /\ ret.op = "drop" /\ ret.val = 2

\* The owning paths that start at p, of n edges at most: each a sequence of
\* stored handles, a handle the bag holds c times standing for c edges.
EdgesOf(p) == UNION {{<<k, c>> : c \in 1..CopiesIn(k, hnd)} : k \in Children(p)}
RECURSIVE PathsFrom(_, _)
PathsFrom(p, n) ==
    {<<>>} \cup (IF n = 0 THEN {}
                 ELSE UNION {{<<e>> \o r : r \in PathsFrom(e[1].ptr, n - 1)} : e \in EdgesOf(p)})

\* C17: on an acyclic graph of stored HashableRef, with no node reached being
\* mutably borrowed, count_nodes and count_nodes_stack both return the number
\* of owning paths that start at the node they are given, without a panic and
\* leaving every handle and box as it was; they panic if a node reached is
\* mutably borrowed.
C17_CountsOwningPaths ==
    [][ret'.op \in {"count_nodes", "count_nodes_stack"} =>
          \A h \in Owns :
             ((count_nodes(h) \/ count_nodes_stack(h)) /\ ~Cyclic(h.ptr)) =>
                 /\ ret'.res = IF Locked(h.ptr) THEN "panic" ELSE "ok"
                 /\ ~Locked(h.ptr) =>
                       /\ ret'.val = Cardinality(PathsFrom(h.ptr, NumNodes))
                       /\ CountNodes(h.ptr) = CountQueue(<<h.ptr>>, 0)
                 /\ UNCHANGED <<hnd, heap>>]_vars

\* The graph of the test: a node with two children, one of which has two
\* children; the queue-based count from the first node returned 5.
C17_Witness ==
    /\ ret.op = "count_nodes_stack" /\ ret.res = "ok" /\ ret.val = 5
    /\ \E a \in Nodes :
          /\ \E h \in Owns : Local(h) /\ h.ptr = a
          /\ Cardinality(Kids(hnd, {a})) = 2
          /\ \E c \in Kids(hnd, {a}) : Cardinality(Kids(hnd, {c})) = 2

\* C18: a guard is held through a HashableRef that exists and cannot be
\* released before it, so the allocation it is on is Live, with its value in
\* place; a box whose flag says "borrowed" has such a guard.
C18_BorrowedIsLive ==
    /\ \A h \in Handles :
          (h.r + h.w > 0) =>
              /\ h.kind = "own"
              /\ heap[h.ptr].used /\ heap[h.ptr].id = h.id
              /\ Phase(h.ptr) = "Live"
              /\ heap[h.ptr].alive /\ heap[h.ptr].val # Dropped
              /\ ~ENABLED drop(h)
    /\ \A p \in Addrs :
          heap[p].flag # 0 =>
              /\ Phase(p) = "Live" /\ heap[p].alive
              /\ \E h \in Owns : h.ptr = p /\ h.r + h.w > 0
              /\ heap[p].flag = IF Writers(heap[p].id) > 0 THEN 0 - 1 ELSE Readers(heap[p].id)

\* A Ref guard is out on an allocation that has one HashableRef, the one the
\* guard was taken through, and a WeakHashableRef.
C18_Witness ==
    /\ ret.op = "borrow" /\ ret.res = "ok"
    /\ \E h \in Owns : h.r > 0 /\ heap[h.ptr].strong = 1 /\ heap[h.ptr].weak >= 1

\* The handles of the bag B with their guards taken off.
RECURSIVE Bare(_, _)
Bare(B, S) == IF S = {} THEN EmptyBag
              ELSE LET h == CHOOSE x \in S : TRUE
                   IN  [k \in {[h EXCEPT !.r = 0, !.w = 0]} |-> CopiesIn(h, B)]
                       (+) Bare(B, S \ {h})

\* C20: an upgrade() that returns None and a borrow() or borrow_mut() that
\* panics leave every box and every handle as they were; borrow, borrow_mut
\* and the release of a guard change only the flag of the box and the guards
\* of the handle; clone, downgrade, upgrade and the Weak clone change no flag,
\* no value and no guard.
C20_FrameConditions ==
    [][/\ (ret'.op = "upgrade" /\ ret'.res = "none") => UNCHANGED <<hnd, heap>>
       /\ (ret'.op \in {"borrow", "borrow_mut"} /\ ret'.res = "panic") => UNCHANGED <<hnd, heap>>
       /\ ret'.op \in {"borrow", "borrow_mut", "release_ref", "release_ref_mut"} =>
             /\ \A p \in Addrs : [heap'[p] EXCEPT !.flag = 0] = [heap[p] EXCEPT !.flag = 0]
             /\ Bare(hnd', BagToSet(hnd')) = Bare(hnd, Handles)
       /\ ret'.op \in {"clone", "downgrade", "upgrade", "weak_clone"} =>
             /\ \A p \in Addrs :
                   /\ heap'[p].flag = heap[p].flag
                   /\ heap'[p].val = heap[p].val /\ heap'[p].alive = heap[p].alive
             /\ \A h \in Handles : CopiesIn(h, hnd') >= CopiesIn(h, hnd)
             /\ \A h \in BagToSet(hnd') :
                   CopiesIn(h, hnd') > CopiesIn(h, hnd) => h.r = 0 /\ h.w = 0]_vars

\* upgrade() returned None while a Ref guard was out on another allocation.
C20_Witness ==
    /\ ret.op = "upgrade" /\ ret.res = "none"
    /\ \E i \in Ids : Readers(i) > 0
=============================================================================
